---- MODULE Spec2Model ----
(***************************************************************************)
(* petit-sibench.c: a driver (main) that provisions a table, launches      *)
(* `threads` workers (thread_main), joins them and prints the totals.      *)
(* Each worker opens a session, sets the isolation level and then issues   *)
(* a mix of "update one row" and "select the table" statements until the   *)
(* wall clock reaches finish_time.                                         *)
(***************************************************************************)
EXTENDS Integers, Sequences, FiniteSets, TLC

\* ------------------------------------------------------------------ bounds
MaxRows == 1            \* --rows is drawn from 0..MaxRows
MaxQueriesPerUpdate == 1 \* --queries-per-update is drawn from -1..MaxQueriesPerUpdate
MaxSeconds == 1         \* --seconds is drawn from 0..MaxSeconds
MaxIter == 2            \* once the workers have sent this many statements,
                        \* the next clock reading is at or past finish_time
UsecPerSec == 2         \* tv_usec runs over 0..UsecPerSec-1 (scaled down)

\* ------------------------------------------------- the program's constants
\* line 127, the default of --threads: runs of 0..DefaultThreads workers
DefaultThreads == 2

\* pthread_create and pthread_join return 0 or an error number, which is
\* positive; EAGAIN is the one pthread_create gives when out of resources
EAGAIN == 11

Workers == 0 .. (DefaultThreads - 1)

VARIABLES
    \* main's locals
    queries_per_update, rows, seconds, ssi, threads,
    finish_time, thread_contexts, mi, total_transactions, total_failures,
    mainpc, output,
    \* the data store and the wall clock
    table, clock,
    \* thread_main's locals, per worker
    wpc, wi, conn, result, nfinish, key, hist

mainVars == <<queries_per_update, rows, seconds, ssi, threads, finish_time,
              thread_contexts, mi, total_transactions, total_failures,
              mainpc, output, table>>
workerVars == <<wpc, wi, conn, result, nfinish, key, hist>>
vars == <<mainVars, workerVars, clock>>

\* ------------------------------------------------------------- pure parts

\* struct timeval as <<tv_sec, tv_usec>>
AddSeconds(tv, s) == <<tv[1] + s, tv[2]>>

\* variant: a reading equal to finish_time does not end the loop
DeadlineReachedAfter(n, f) ==
    n[1] > f[1] \/ (n[1] = f[1] /\ n[2] > f[2])
\* variant: the test on the seconds alone
DeadlineReachedStrict(n, f) == n[1] > f[1]
\* lines 92-94: the loop's exit test
DeadlineReached(n, f) ==
    n[1] > f[1] \/ (n[1] = f[1] /\ n[2] >= f[2])

\* variant: the remainder taken by one more than the cycle
IsUpdateOffByOne(i, cycle) == i % (cycle + 1) = 0
\* line 69: i % context->cycle == 0, for cycle >= 1 (i is never negative)
IsUpdate(i, cycle) == i % cycle = 0

\* line 76: rand_r(&seed) % context->rows, for rows >= 1
UpdateKey(r, n) == r % n

\* variant: both statements compared against PGRES_COMMAND_OK
StatementFailedSameStatus(kind, status) == status # "PGRES_COMMAND_OK"
\* lines 78 and 86: the status each statement is compared against
StatementFailed(kind, status) ==
    IF kind = "update" THEN status # "PGRES_COMMAND_OK"
                       ELSE status # "PGRES_TUPLES_OK"

\* what the data store can answer to a statement of this kind
StoreAnswers(kind) ==
    IF kind = "update" THEN {"PGRES_COMMAND_OK", "PGRES_FATAL_ERROR"}
                       ELSE {"PGRES_TUPLES_OK", "PGRES_FATAL_ERROR"}

\* line 204: pthread_create(...) < 0
CreateFailed(rc) == rc < 0

\* line 213: pthread_join(...) < 0
JoinFailed(rc) == rc < 0

\* variant: only the statements that succeeded are added
AddTransactionsSucceededOnly(total, c) == total + c.transactions - c.failures
\* line 224
AddTransactions(total, c) == total + c.transactions

\* line 225
AddFailures(total, c) == total + c.failures

\* the process is alive: main has neither returned nor been killed
Terminal == {"done", "exit_failure", "crashed"}
Running == mainpc \notin Terminal

\* variant: a join that does not wait
ThreadTerminatedAlways(w) == TRUE
\* pthread_join on a valid handle returns once thread_main has returned
ThreadTerminated(w) == wpc[w] = "returned"

\* ------------------------------------------------------------------- Init

\* the state after the argument scan (lines 121-152); --ssi only selects the
\* text of the statement at line 55 and is explored with the shortest runs
Init ==
    /\ queries_per_update \in -1 .. MaxQueriesPerUpdate
    /\ rows \in 0 .. MaxRows
    /\ seconds \in 0 .. MaxSeconds
    /\ ssi \in BOOLEAN
    /\ ssi => seconds = 0
    /\ threads \in 0 .. DefaultThreads
    /\ finish_time = <<0, 0>>
    /\ thread_contexts = [w \in {} |-> 0]
    /\ mi = 0
    /\ total_transactions = 0
    /\ total_failures = 0
    /\ mainpc = "start"
    /\ output = <<>>
    /\ table = {}
    /\ clock = <<0, 0>>
    /\ wpc = [w \in Workers |-> "unborn"]
    /\ wi = [w \in Workers |-> -1]
    /\ conn = [w \in Workers |-> "unset"]
    /\ result = [w \in Workers |-> "unset"]
    /\ nfinish = [w \in Workers |-> 0]
    /\ key = [w \in Workers |-> -1]
    /\ hist = [w \in Workers |-> <<>>]

\* ------------------------------------------------------------ wall clock

\* the instant one tick after tv
NextInstant(tv) ==
    IF tv[2] + 1 = UsecPerSec THEN <<tv[1] + 1, 0>> ELSE <<tv[1], tv[2] + 1>>

\* a is not later than b
NotLater(a, b) == a[1] < b[1] \/ (a[1] = b[1] /\ a[2] <= b[2])

\* gettimeofday: clock is the latest reading anyone took; the next reading
\* is that instant or a later one (followed until one tick past finish_time)
Readings ==
    {t \in (0 .. (MaxSeconds + 1)) \X (0 .. (UsecPerSec - 1)) :
        NotLater(clock, t) /\ NotLater(t, NextInstant(finish_time))}

\* ------------------------------------------------------------ main (driver)

\* lines 154-156
ComputeFinish ==
    /\ mainpc = "start"
    /\ \E t \in {0} \X (0 .. (UsecPerSec - 1)) :
          /\ clock' = t
          /\ finish_time' = AddSeconds(t, seconds)
    /\ mainpc' = "schema"
    /\ UNCHANGED <<queries_per_update, rows, seconds, ssi, threads,
                   thread_contexts, mi, total_transactions, total_failures,
                   output, table, workerVars>>

\* lines 158-178 and the fail label, lines 233-237
InitSchema ==
    /\ mainpc = "schema"
    /\ \E outcome \in {"ok", "connect_failed", "drop_failed", "create_failed"} :
          /\ table' = IF outcome = "ok" THEN 1 .. rows ELSE {}
          /\ mainpc' = IF outcome = "ok" THEN "alloc" ELSE "exit_failure"
    /\ UNCHANGED <<queries_per_update, rows, seconds, ssi, threads, finish_time,
                   thread_contexts, mi, total_transactions, total_failures,
                   output, workerVars, clock>>

\* lines 181-186
Alloc ==
    /\ mainpc = "alloc"
    /\ \E got \in BOOLEAN :
          mainpc' = IF got THEN "launch" ELSE "exit_failure"
    /\ mi' = 0
    /\ UNCHANGED <<queries_per_update, rows, seconds, ssi, threads, finish_time,
                   thread_contexts, total_transactions, total_failures,
                   output, table, workerVars, clock>>

\* variant: every context is numbered 0
NewContextSharedId(i, handle) ==
    [thread_handle |-> handle,
     finish_time |-> finish_time,
     queries_per_update |-> queries_per_update,
     ssi |-> ssi,
     thread_number |-> 0,
     rows |-> rows,
     transactions |-> 0,
     failures |-> 0,
     cycle |-> queries_per_update + 1]
\* variant: each context gets a deadline counted from its own launch
NewContextOwnDeadline(i, handle) ==
    [thread_handle |-> handle,
     finish_time |-> AddSeconds(clock, seconds),
     queries_per_update |-> queries_per_update,
     ssi |-> ssi,
     thread_number |-> i,
     rows |-> rows,
     transactions |-> 0,
     failures |-> 0,
     cycle |-> queries_per_update + 1]
\* lines 192-200: the context main fills in before pthread_create
NewContext(i, handle) ==
    [thread_handle |-> handle,
     finish_time |-> finish_time,
     queries_per_update |-> queries_per_update,
     ssi |-> ssi,
     thread_number |-> i,
     rows |-> rows,
     transactions |-> 0,
     failures |-> 0,
     cycle |-> queries_per_update + 1]

\* lines 187-209, one pass of the loop body
Launch ==
    /\ mainpc = "launch"
    /\ mi < threads
    /\ \E rc \in {0, EAGAIN} :
          /\ thread_contexts' =
                [w \in 0 .. mi |->
                    IF w = mi
                    THEN NewContext(mi, IF rc = 0 THEN "valid" ELSE "garbage")
                    ELSE thread_contexts[w]]
          /\ wpc' = IF rc = 0 THEN [wpc EXCEPT ![mi] = "connect"] ELSE wpc
          /\ IF CreateFailed(rc)
             THEN mainpc' = "exit_failure" /\ mi' = mi
             ELSE mainpc' = mainpc /\ mi' = mi + 1
    /\ UNCHANGED <<queries_per_update, rows, seconds, ssi, threads, finish_time,
                   total_transactions, total_failures, output, table,
                   wi, conn, result, nfinish, key, hist, clock>>

\* line 187, the loop's exit
LaunchDone ==
    /\ mainpc = "launch"
    /\ mi >= threads
    /\ mainpc' = "join"
    /\ mi' = 0
    /\ UNCHANGED <<queries_per_update, rows, seconds, ssi, threads, finish_time,
                   thread_contexts, total_transactions, total_failures,
                   output, table, workerVars, clock>>

\* lines 211-218 for a handle pthread_create filled in
Join ==
    /\ mainpc = "join"
    /\ mi < threads
    /\ thread_contexts[mi].thread_handle = "valid"
    /\ ThreadTerminated(mi)
    /\ IF JoinFailed(0)
       THEN mainpc' = "exit_failure" /\ mi' = mi
       ELSE mainpc' = mainpc /\ mi' = mi + 1
    /\ UNCHANGED <<queries_per_update, rows, seconds, ssi, threads, finish_time,
                   thread_contexts, total_transactions, total_failures,
                   output, table, workerVars, clock>>

\* lines 211-218 for a handle a failed pthread_create left indeterminate:
\* the call returns an error number (ESRCH, positive like EAGAIN) or
\* follows the invalid handle and kills the process
JoinGarbage ==
    /\ mainpc = "join"
    /\ mi < threads
    /\ thread_contexts[mi].thread_handle = "garbage"
    /\ \E outcome \in {"returns", "crash"} :
          CASE outcome = "returns" ->
                   IF JoinFailed(EAGAIN)
                   THEN mainpc' = "exit_failure" /\ mi' = mi
                   ELSE mainpc' = mainpc /\ mi' = mi + 1
            [] outcome = "crash" -> mainpc' = "crashed" /\ mi' = mi
    /\ UNCHANGED <<queries_per_update, rows, seconds, ssi, threads, finish_time,
                   thread_contexts, total_transactions, total_failures,
                   output, table, workerVars, clock>>

\* line 211, the loop's exit, and lines 220-221
JoinDone ==
    /\ mainpc = "join"
    /\ mi >= threads
    /\ mainpc' = "sum"
    /\ mi' = 0
    /\ total_transactions' = 0
    /\ total_failures' = 0
    /\ UNCHANGED <<queries_per_update, rows, seconds, ssi, threads, finish_time,
                   thread_contexts, output, table, workerVars, clock>>

\* lines 222-226, one pass of the loop body
Sum ==
    /\ mainpc = "sum"
    /\ mi < threads
    /\ total_transactions' = AddTransactions(total_transactions, thread_contexts[mi])
    /\ total_failures' = AddFailures(total_failures, thread_contexts[mi])
    /\ mi' = mi + 1
    /\ UNCHANGED <<queries_per_update, rows, seconds, ssi, threads, finish_time,
                   thread_contexts, mainpc, output, table, workerVars, clock>>

\* variant: the whole seconds the clock has moved since main read it
ReportedDurationElapsed == clock[1] - (finish_time[1] - seconds)
\* line 228: the divisor, (double) seconds
ReportedDuration == seconds

\* lines 227-231: TPS is printed as the quotient of tps_num by tps_den
Report ==
    /\ mainpc = "sum"
    /\ mi >= threads
    /\ output' = Append(output, [tps_num |-> total_transactions,
                                 tps_den |-> ReportedDuration,
                                 failures |-> total_failures])
    /\ mainpc' = "done"
    /\ UNCHANGED <<queries_per_update, rows, seconds, ssi, threads, finish_time,
                   thread_contexts, mi, total_transactions, total_failures,
                   table, workerVars, clock>>

Main ==
    \/ ComputeFinish \/ InitSchema \/ Alloc \/ Launch \/ LaunchDone
    \/ Join \/ JoinGarbage \/ JoinDone \/ Sum \/ Report

\* --------------------------------------------------------- thread_main

\* lines 47-52: PQconnectdb hands back a PGconn object whose status is good
\* or bad; a failed connection returns at line 51
Connect(w) ==
    /\ Running
    /\ wpc[w] = "connect"
    /\ \E got \in {"ok", "bad"} :
          /\ conn' = [conn EXCEPT ![w] = got]
          /\ wpc' = [wpc EXCEPT ![w] = IF got = "ok" THEN "setiso" ELSE "returned"]
    /\ UNCHANGED <<mainVars, wi, result, nfinish, key, hist, clock>>

\* lines 54-65
SetIsolation(w) ==
    /\ Running
    /\ wpc[w] = "setiso"
    /\ \E status \in {"PGRES_COMMAND_OK", "PGRES_FATAL_ERROR"} :
          IF status # "PGRES_COMMAND_OK"
          THEN /\ result' = [result EXCEPT ![w] = "live"]
               /\ wpc' = [wpc EXCEPT ![w] = "fail"]
               /\ wi' = wi
          ELSE /\ result' = [result EXCEPT ![w] = "cleared"]
               /\ wi' = [wi EXCEPT ![w] = thread_contexts[w].thread_number]
               /\ wpc' = [wpc EXCEPT ![w] = "loop"]
    /\ UNCHANGED <<mainVars, conn, nfinish, key, hist, clock>>

\* line 69: the branch i % context->cycle == 0 selects; with a zero cycle
\* the remainder is undefined and either branch may be taken
Kinds(i, cycle) ==
    IF cycle = 0 THEN {"update", "select"}
    ELSE {IF IsUpdate(i, cycle) THEN "update" ELSE "select"}

\* line 76: the keys rand_r(&seed) % context->rows can give; with zero rows
\* the remainder is undefined and some value is formatted
Keys(n) ==
    IF n = 0 THEN 0 .. MaxRows
    ELSE {UpdateKey(r, n) : r \in 0 .. (2 * MaxRows)}

\* variant: a failed statement is not counted as a transaction
CountedOnSuccessOnly(c, kind, status) ==
    IF StatementFailed(kind, status)
    THEN [c EXCEPT !.failures = @ + 1]
    ELSE [c EXCEPT !.transactions = @ + 1]
\* variant: the second increment lands on thread_number
CountedWrongField(c, kind, status) ==
    [c EXCEPT !.failures = IF StatementFailed(kind, status) THEN @ + 1 ELSE @,
              !.thread_number = @ + 1]
\* lines 78-80 and 86-88: count the statement
Counted(c, kind, status) ==
    [c EXCEPT !.failures = IF StatementFailed(kind, status) THEN @ + 1 ELSE @,
              !.transactions = @ + 1]

\* variant: a failed statement is sent again
NextIRetry(i, kind, status) ==
    IF StatementFailed(kind, status) THEN i ELSE i + 1
\* line 69: i++, whatever the statement and its outcome
NextI(i, kind, status) == i + 1

\* lines 69-90, one statement: the mix decision, the statement, the
\* counters and PQclear; key is what line 76 formatted into the buffer
Iterate(w) ==
    /\ Running
    /\ wpc[w] = "loop"
    /\ \E kind \in Kinds(wi[w], thread_contexts[w].cycle) :
       \E status \in StoreAnswers(kind) :
          /\ IF kind = "update"
             THEN \E k \in Keys(thread_contexts[w].rows) :
                     key' = [key EXCEPT ![w] = k]
             ELSE key' = key
          /\ thread_contexts' =
                [thread_contexts EXCEPT ![w] = Counted(@, kind, status)]
          /\ hist' = [hist EXCEPT ![w] =
                         Append(@, [kind |-> kind, status |-> status])]
          /\ wi' = [wi EXCEPT ![w] = NextI(@, kind, status)]
    /\ result' = [result EXCEPT ![w] = "cleared"]
    /\ wpc' = [wpc EXCEPT ![w] = "time"]
    /\ UNCHANGED <<queries_per_update, rows, seconds, ssi, threads, finish_time,
                   mi, total_transactions, total_failures, mainpc, output, table,
                   conn, nfinish, clock>>

\* lines 69 and 76: a remainder by zero can also kill the process (SIGFPE)
DivideByZero(w) ==
    /\ Running
    /\ wpc[w] = "loop"
    /\ \/ thread_contexts[w].cycle = 0
       \/ /\ thread_contexts[w].rows = 0
          /\ "update" \in Kinds(wi[w], thread_contexts[w].cycle)
    /\ mainpc' = "crashed"
    /\ UNCHANGED <<queries_per_update, rows, seconds, ssi, threads, finish_time,
                   thread_contexts, mi, total_transactions, total_failures,
                   output, table, workerVars, clock>>

\* statements completed by all workers
RECURSIVE Statements(_)
Statements(n) == IF n = 0 THEN 0 ELSE Len(hist[n - 1]) + Statements(n - 1)

\* lines 91-95: read the clock and leave the loop at or past finish_time;
\* the buffer of line 71 is out of scope here
CheckDeadline(w) ==
    /\ Running
    /\ wpc[w] = "time"
    /\ \E t \in Readings :
          /\ clock' = t
          /\ IF DeadlineReached(t, thread_contexts[w].finish_time)
             THEN wpc' = [wpc EXCEPT ![w] = "fail"]
             ELSE /\ Statements(DefaultThreads) < MaxIter
                  /\ wpc' = [wpc EXCEPT ![w] = "loop"]
    /\ key' = [key EXCEPT ![w] = -1]
    /\ UNCHANGED <<mainVars, wi, conn, result, nfinish, hist>>

\* lines 98-100
Finish(w) ==
    /\ Running
    /\ wpc[w] = "fail"
    /\ conn' = [conn EXCEPT ![w] = "finished"]
    /\ nfinish' = [nfinish EXCEPT ![w] = @ + 1]
    /\ wpc' = [wpc EXCEPT ![w] = "returned"]
    /\ UNCHANGED <<mainVars, wi, result, key, hist, clock>>

Worker(w) ==
    \/ Connect(w) \/ SetIsolation(w) \/ Iterate(w) \/ DivideByZero(w)
    \/ CheckDeadline(w) \/ Finish(w)

Next == Main \/ (\E w \in Workers : Worker(w))

Spec == Init /\ [][Next]_vars

\* every thread that can take a step eventually does
FairSpec ==
    /\ Spec
    /\ WF_vars(Main)
    /\ \A w \in Workers : WF_vars(Worker(w))

\* ------------------------------------------------------------ properties

RECURSIVE TotalOf(_, _)
\* f[0] + ... + f[n-1]
TotalOf(f, n) == IF n = 0 THEN 0 ELSE f[n - 1] + TotalOf(f, n - 1)

\* the workers main has filled a context for
Launched == DOMAIN thread_contexts

\* statements of one kind worker w has sent
Sent(w, kind) == {k \in 1 .. Len(hist[w]) : hist[w][k].kind = kind}

\* worker w returned without entering its loop: the connection or the
\* isolation statement failed
SetupFailed(w) == wpc[w] = "returned" /\ wi[w] = -1

\* worker w left its loop through the deadline test
LoopLeft(w) == wpc[w] \in {"fail", "returned"} /\ wi[w] # -1

\* C1: for rows >= 1, the key an update statement filters on lies in
\* 1..rows, the keys the table was populated with
C1_UpdateKeyInTable ==
    \A w \in Launched :
        (thread_contexts[w].rows >= 1 /\ key[w] # -1)
            => (key[w] \in 1 .. thread_contexts[w].rows /\ key[w] \in table)

\* C2: the aggregation loop (and the report after it) runs only when no
\* worker is still inside thread_main
C2_AggregationAfterJoin ==
    mainpc \in {"sum", "done"}
        => \A w \in Workers : wpc[w] \in {"unborn", "returned"}

C2_Witness ==
    /\ mainpc = "sum"
    /\ mi = 1
    /\ threads = 2
    /\ \A w \in Workers : wpc[w] = "returned" /\ Len(hist[w]) >= 1

\* C3: when the report is printed, the transactions it divides are the sum
\* of the loop iterations the workers executed, the failures it prints are
\* the sum of the workers' failure counters, and failures <= transactions
C3_ReportTotals ==
    mainpc = "done"
        => /\ Len(output) = 1
           /\ output[1].tps_num = TotalOf([w \in Workers |-> Len(hist[w])], threads)
           /\ output[1].tps_num = TotalOf([w \in Workers |-> IF wi[w] = -1 THEN 0
                                                             ELSE wi[w] - w], threads)
           /\ output[1].failures =
                 TotalOf([w \in Launched |-> thread_contexts[w].failures], threads)
           /\ output[1].failures <= output[1].tps_num

C3_Witness ==
    /\ mainpc = "done"
    /\ threads = 2
    /\ \A w \in Workers : Len(hist[w]) >= 1
    /\ output[1].tps_num >= 3
    /\ output[1].failures >= 1
    /\ output[1].failures < output[1].tps_num

\* C4: for a cycle >= 1, every window of cycle consecutive iterations of a
\* worker holds exactly one update (and so cycle - 1 reads)
C4_OneUpdatePerCycle ==
    \A w \in Launched :
        LET c == thread_contexts[w].cycle IN
        c >= 1 =>
            \A s \in 1 .. (Len(hist[w]) - c + 1) :
                Cardinality(Sent(w, "update") \cap (s .. (s + c - 1))) = 1

C4_Witness ==
    /\ \E w \in Launched :
          /\ w = 1
          /\ thread_contexts[w].cycle = 2
          /\ Len(hist[w]) = 2
          /\ hist[w][1].kind = "select"
          /\ hist[w][2].kind = "update"

\* C5: a worker that has returned has released the session object its
\* connect call gave it, exactly once
C5_SessionReleased ==
    \A w \in Workers :
        wpc[w] = "returned" => (conn[w] = "finished" /\ nfinish[w] = 1)

\* C6: once a pthread_create has failed, main ends with a failure status:
\* no later worker is launched, nothing is joined or summed or printed
C6_LaunchFailureFatal ==
    \A w \in Launched :
        thread_contexts[w].thread_handle = "garbage"
            => /\ mainpc = "exit_failure"
               /\ output = <<>>
               /\ \A v \in Workers : v > w => wpc[v] = "unborn"

\* C7: after a worker's setup has failed its counters are zero and the run
\* is neither aborted nor stuck: main goes on to join and to report
C7_SetupFailureNotFatal ==
    \A w \in Workers :
        SetupFailed(w)
            => /\ thread_contexts[w].transactions = 0
               /\ thread_contexts[w].failures = 0
               /\ mainpc \notin {"crashed", "exit_failure"}
               /\ mainpc = "done" \/ ENABLED Next

\* the store has rejected every update and accepted every read of worker w
RejectsUpdatesOnly(w) ==
    \A k \in 1 .. Len(hist[w]) :
        hist[w][k].status = IF hist[w][k].kind = "update"
                            THEN "PGRES_FATAL_ERROR" ELSE "PGRES_TUPLES_OK"

\* C8: when the store rejects every update and accepts every read, a
\* worker's failures are exactly its updates, and the failures of the
\* report are exactly the updates of all workers
C8_FailuresAreUpdates ==
    /\ \A w \in Launched :
          RejectsUpdatesOnly(w)
              => thread_contexts[w].failures = Cardinality(Sent(w, "update"))
    /\ (mainpc = "done" /\ \A w \in Workers : RejectsUpdatesOnly(w))
          => output[1].failures =
                TotalOf([w \in Workers |-> Cardinality(Sent(w, "update"))], threads)

C8_Witness ==
    /\ mainpc = "done"
    /\ \A w \in Workers : RejectsUpdatesOnly(w)
    /\ output[1].failures >= 1
    /\ \E w \in Workers : Sent(w, "select") # {} /\ Sent(w, "update") # {}

\* C9: with one worker and zero seconds the worker sends at most one
\* statement, exactly one once it has left its loop, the report counts 0 or
\* 1 transactions, and the run is never stuck short of its end
C9_ZeroSecondsOneStatement ==
    (threads = 1 /\ seconds = 0)
        => /\ Len(hist[0]) <= 1
           /\ LoopLeft(0) => Len(hist[0]) = 1
           /\ wpc[0] = "returned" => (Len(hist[0]) = 1 <=> ~SetupFailed(0))
           /\ mainpc = "done" => output[1].tps_num \in {0, 1}
           /\ mainpc \in Terminal \/ ENABLED Next

C9_Witness ==
    /\ threads = 1
    /\ seconds = 0
    /\ mainpc = "done"
    /\ output[1].tps_num = 1
    /\ ~SetupFailed(0)

\* C10: with rows = 0 the run ends in an error: no report is printed and
\* no worker formats an update key
C10_ZeroRowsRejected ==
    rows = 0 => (mainpc # "done" /\ \A w \in Workers : key[w] = -1)


\* C11: every context a worker runs with has cycle = queries_per_update + 1
\* and cycle >= 1, so line 69 never takes a remainder by less than 1
C11_CycleAtLeastOne ==
    \A w \in Launched :
        wpc[w] # "unborn" =>
        /\ thread_contexts[w].cycle = thread_contexts[w].queries_per_update + 1
        /\ thread_contexts[w].cycle >= 1


\* the fields of a context that lines 192-200 set from the configuration
ConfigFields(c) ==
    <<c.thread_handle, c.finish_time, c.queries_per_update, c.ssi,
      c.thread_number, c.rows, c.cycle>>

\* thread_main's locals of worker v
Locals(v) == <<wpc[v], wi[v], conn[v], result[v], nfinish[v], key[v], hist[v]>>

\* a step of worker w leaves alone the other workers' contexts and locals,
\* the configured fields of its own context and main's configuration
WorkerFrame(w) ==
    /\ DOMAIN thread_contexts' = DOMAIN thread_contexts
    /\ \A v \in Launched \ {w} : thread_contexts'[v] = thread_contexts[v]
    /\ ConfigFields(thread_contexts'[w]) = ConfigFields(thread_contexts[w])
    /\ \A v \in Workers \ {w} : Locals(v)' = Locals(v)
    /\ UNCHANGED <<queries_per_update, rows, seconds, ssi, threads, finish_time>>

\* a step of main leaves alone every context it has already filled in
DriverFrame ==
    \A v \in Launched :
        /\ v \in DOMAIN thread_contexts'
        /\ thread_contexts'[v] = thread_contexts[v]

\* C12: a worker's step changes only its own counters and locals, and main
\* writes no counter of a worker it has launched
C12_OwnStateOnly ==
    [][/\ \A w \in Workers : Worker(w) => WorkerFrame(w)
       /\ Main => DriverFrame]_vars

C12_Witness ==
    /\ mainpc = "join"
    /\ mi = 0
    /\ \A w \in Workers :
          /\ w \in Launched
          /\ thread_contexts[w].transactions >= 1
          /\ wpc[w] = "time"
    /\ thread_contexts[0].failures = 1
    /\ thread_contexts[1].failures = 0


\* statements of worker w the store answered with this status
Answered(w, status) == {k \in 1 .. Len(hist[w]) : hist[w][k].status = status}

\* C13: the printed TPS is the quotient of the workers' statements, failed
\* ones included, by the configured seconds, whatever time has elapsed
C13_ThroughputByConfiguredSeconds ==
    mainpc = "done"
        => /\ output[1].tps_den = seconds
           /\ output[1].tps_num =
                 TotalOf([w \in Workers |->
                            Cardinality(Answered(w, "PGRES_FATAL_ERROR"))
                            + Cardinality(Answered(w, "PGRES_COMMAND_OK"))
                            + Cardinality(Answered(w, "PGRES_TUPLES_OK"))], threads)

C13_Witness ==
    /\ mainpc = "done"
    /\ seconds = 1
    /\ clock = NextInstant(finish_time)
    /\ clock[1] # finish_time[1]
    /\ output[1].tps_num = 2
    /\ Cardinality(Answered(0, "PGRES_FATAL_ERROR")) = 1


\* C14: for a cycle >= 1, iteration k (from 0) of worker w is an update
\* exactly when (w + k) % cycle = 0, whatever the earlier outcomes were:
\* worker 0 starts with an update, worker 1 does so only when cycle = 1
C14_PhaseByWorkerNumber ==
    \A w \in Launched :
        LET c == thread_contexts[w].cycle IN
        c >= 1 =>
            /\ \A k \in 0 .. (Len(hist[w]) - 1) :
                  hist[w][k + 1].kind = "update" <=> (w + k) % c = 0
            /\ Len(hist[0]) >= 1 => hist[0][1].kind = "update"
            /\ (w = 1 /\ Len(hist[1]) >= 1)
                  => (hist[1][1].kind = "update" <=> c = 1)

C14_Witness ==
    /\ 1 \in Launched
    /\ thread_contexts[1].cycle = 2
    /\ Len(hist[1]) = 2
    /\ hist[1][1] = [kind |-> "select", status |-> "PGRES_FATAL_ERROR"]
    /\ hist[1][2].kind = "update"
    /\ Len(hist[0]) = 1
    /\ hist[0][1] = [kind |-> "update", status |-> "PGRES_FATAL_ERROR"]


\* the statements of worker w whose answer is not the one lines 78 and 86
\* accept for their kind
Failed(w) ==
    {k \in 1 .. Len(hist[w]) :
        hist[w][k].status # (IF hist[w][k].kind = "update"
                             THEN "PGRES_COMMAND_OK" ELSE "PGRES_TUPLES_OK")}

\* C15: a worker's transactions are the statements it has completed (i less
\* its thread_number once the loop is entered), failed or not, its failures
\* are the failed ones among them, and 0 <= failures <= transactions
C15_CountersMatchStatements ==
    \A w \in Launched :
        LET c == thread_contexts[w] IN
        /\ c.transactions = Len(hist[w])
        /\ wi[w] # -1 => c.transactions = wi[w] - c.thread_number
        /\ wi[w] = -1 => c.transactions = 0
        /\ c.failures = Cardinality(Failed(w))
        /\ 0 <= c.failures
        /\ c.failures <= c.transactions

C15_Witness ==
    \E w \in Launched :
        /\ thread_contexts[w].transactions = 2
        /\ thread_contexts[w].failures = 1
        /\ hist[w][1].status = "PGRES_FATAL_ERROR"
        /\ hist[w][2].status # "PGRES_FATAL_ERROR"
        /\ wpc[w] = "time"


\* instant a is strictly before instant b
Before(a, b) == a[1] < b[1] \/ (a[1] = b[1] /\ a[2] < b[2])

\* C16: a worker reads the clock only after completing a statement; it
\* leaves the loop exactly when the reading is at or past finish_time
\* (equal seconds and microseconds included) and goes round again exactly
\* when the reading is strictly before it; a statement is sent only from the
\* top of the loop, which is entered from the isolation statement (first
\* statement) or from a reading strictly before finish_time
C16_LeaveAtDeadline ==
    [][\A w \in Workers :
          /\ (Worker(w) /\ clock' # clock)
                => (wpc[w] = "time" /\ Len(hist[w]) >= 1)
          /\ (wpc[w] = "time" /\ wpc'[w] # "time")
                => /\ Len(hist[w]) >= 1
                   /\ wpc'[w] \in {"fail", "loop"}
                   /\ wpc'[w] = "fail" <=> ~Before(clock', finish_time)
                   /\ wpc'[w] = "loop" <=> Before(clock', finish_time)
          /\ (wpc'[w] = "loop" /\ wpc[w] # "loop")
                => \/ wpc[w] = "setiso" /\ Len(hist[w]) = 0
                   \/ wpc[w] = "time" /\ Before(clock', finish_time)
          /\ hist'[w] # hist[w]
                => /\ wpc[w] = "loop"
                   /\ wpc'[w] = "time"
                   /\ Len(hist'[w]) = Len(hist[w]) + 1
      ]_vars

C16_Witness ==
    /\ threads = 1
    /\ seconds = 1
    /\ wpc[0] = "fail"
    /\ Len(hist[0]) = 2
    /\ clock = finish_time


\* C17: a run that has launched its workers goes on to the report: the
\* process is never killed, and short of the report (or of the exit of a
\* failed setup in main) some thread can always take a step, the loop
\* running out with the clock
C17_RunsToReport ==
    /\ mainpc # "crashed"
    /\ \A w \in Workers : wpc[w] \notin {"unborn", "returned"} => Running
    /\ mainpc \notin {"done", "exit_failure"} => ENABLED Next


\* C18: finish_time is assigned once, by main's first step and before any
\* context or worker exists, to the clock reading plus seconds; every
\* context carries that value from its creation on, and no step of main or
\* of a worker changes main's or a context's finish_time afterwards
C18_DeadlineComputedOnce ==
    [][/\ mainpc = "start"
            => /\ Launched = {}
               /\ \A w \in Workers : wpc[w] = "unborn"
               /\ mainpc' # "start"
               /\ finish_time' = <<clock'[1] + seconds, clock'[2]>>
       /\ mainpc # "start"
            => /\ mainpc' # "start"
               /\ finish_time' = finish_time
       /\ \A w \in Launched :
            /\ w \in DOMAIN thread_contexts'
            /\ thread_contexts'[w].finish_time = thread_contexts[w].finish_time
       /\ \A w \in DOMAIN thread_contexts' :
            thread_contexts'[w].finish_time = finish_time'
      ]_vars

C18_Witness ==
    /\ Launched = {0, 1}
    /\ seconds = 1
    /\ wpc[0] = "returned"
    /\ wpc[1] = "time"
    /\ Len(hist[0]) >= 1
    /\ Before(finish_time, clock)
    /\ thread_contexts[1].finish_time = finish_time


\* C19: a worker that exists has a context main filled in before creating
\* it: thread_number is the worker's own index (distinct over the contexts,
\* which cover 0..threads-1 once the launch loop is done), rows, cycle, ssi
\* and finish_time hold the configured values, and both counters are 0
\* until the worker's first statement, so in particular at its first step
C19_ContextReadyAtStart ==
    /\ \A w \in Workers :
          wpc[w] # "unborn"
             => /\ w \in Launched
                /\ w < threads
                /\ thread_contexts[w].thread_number = w
                /\ thread_contexts[w].rows = rows
                /\ thread_contexts[w].cycle = queries_per_update + 1
                /\ thread_contexts[w].ssi = ssi
                /\ thread_contexts[w].finish_time = finish_time
                /\ (wpc[w] \in {"connect", "setiso"} \/ hist[w] = <<>>)
                      => /\ thread_contexts[w].transactions = 0
                         /\ thread_contexts[w].failures = 0
    /\ \A v, w \in Launched :
          v # w => thread_contexts[v].thread_number # thread_contexts[w].thread_number
    /\ mainpc \in {"join", "sum", "done"} => Launched = 0 .. (threads - 1)

C19_Witness ==
    /\ threads = 2
    /\ wpc[1] = "connect"
    /\ wpc[0] = "time"
    /\ thread_contexts[0].transactions = 1
    /\ thread_contexts[1].thread_number = 1
    /\ thread_contexts[1].rows = 1


\* C20: a worker that has left thread_main's body (it is at the fail label
\* or has returned) holds no result it has not cleared, whichever way it
\* left, the failed isolation statement included
C20_ResultsCleared ==
    \A w \in Workers :
        wpc[w] \in {"fail", "returned"} => result[w] # "live"

====
